---- MODULE Spec2Model ----
(***************************************************************************)
(* DayMaster (streamlit_app.py): the activity list kept in                 *)
(* st.session_state, the three pages main() dispatches to, and the two     *)
(* time utilities validate_time_format and calculate_duration.             *)
(*                                                                         *)
(* A Python str is a sequence of one-character strings, so that the        *)
(* regular expression, strptime and the str comparison are computed        *)
(* character by character.  Activity names are only tested for emptiness   *)
(* and stay TLA+ strings.                                                  *)
(***************************************************************************)
EXTENDS Integers, Sequences, FiniteSets, TLC

VARIABLES
    activities,        \* st.session_state.activities
    pc,                \* position in main(): "main" or "summary"
    page,              \* the sidebar radio's value in the current script run
    submitted,         \* st.form_submit_button's value
    activity_name,     \* the form's text inputs
    start_time,
    end_time,
    message,           \* the st.warning / st.error / st.success / st.info shown
    rendered,          \* the activity entries written to the page, in order
    total_activities,  \* summary_and_reassurance's count
    tpc,               \* position of a direct call of the time utilities
    time_arg,          \* first argument of the call
    end_arg,           \* second argument of calculate_duration
    valid,             \* validate_time_format's result
    result             \* calculate_duration's result

vars == <<activities, pc, page, submitted, activity_name, start_time, end_time,
          message, rendered, total_activities,
          tpc, time_arg, end_arg, valid, result>>

formVars == <<submitted, activity_name, start_time, end_time>>
timeVars == <<tpc, time_arg, end_arg, valid, result>>
sessionVars == <<activities, pc, page, submitted, activity_name, start_time,
                 end_time, message, rendered, total_activities>>

----------------------------------------------------------------------------
(* Bounds *)

\* Longest activity list explored.
MaxActivities == 2

\* Longest string handed directly to the time utilities.
MaxLen == 6

----------------------------------------------------------------------------
(* Characters *)

DigitChars == {"0", "1", "2", "3", "4", "5", "6", "7", "8", "9"}

\* Code point of a character (ord).
Ord(c) ==
    CASE c = "\n" -> 10
      [] c = "0" -> 48
      [] c = "1" -> 49
      [] c = "2" -> 50
      [] c = "3" -> 51
      [] c = "4" -> 52
      [] c = "5" -> 53
      [] c = "6" -> 54
      [] c = "7" -> 55
      [] c = "8" -> 56
      [] c = "9" -> 57
      [] c = ":" -> 58

Chars == DigitChars \cup {":", "\n"}

\* s[i], or "" past either end of the string.
At(s, i) == IF i \in 1..Len(s) THEN s[i] ELSE ""

\* A character class [lo-hi].
InClass(c, lo, hi) == c \in Chars /\ Ord(lo) <= Ord(c) /\ Ord(c) <= Ord(hi)

DigitVal(c) == Ord(c) - 48

----------------------------------------------------------------------------
(* validate_time_format: re.match(r"^(2[0-3]|[01]?[0-9]):([0-5][0-9])$", s) *)

\* The lengths group 1, (2[0-3]|[01]?[0-9]), can match at the start of s.
HourGroupEnds(s) ==
    {p \in {1, 2} :
        \/ p = 2 /\ At(s, 1) = "2" /\ InClass(At(s, 2), "0", "3")
        \/ p = 2 /\ InClass(At(s, 1), "0", "1") /\ InClass(At(s, 2), "0", "9")
        \/ p = 1 /\ InClass(At(s, 1), "0", "9")}

\* $ after p characters (no re.MULTILINE): the end of the string, or just
\* before a newline that is the string's last character.
AtDollar(s, p) ==
    \/ p = Len(s)
    \/ p = Len(s) - 1 /\ s[Len(s)] = "\n"

validate_time_format(s) ==
    \E p \in HourGroupEnds(s) :
        /\ At(s, p + 1) = ":"
        /\ InClass(At(s, p + 2), "0", "5")
        /\ InClass(At(s, p + 3), "0", "9")
        /\ AtDollar(s, p + 3)

----------------------------------------------------------------------------
(* datetime.strptime(s, "%H:%M"), as called by calculate_duration.  The     *)
(* format compiles to (2[0-3]|[0-1]\d|\d):([0-5]\d|\d); the first match in  *)
(* that order is taken and any character left after it raises ValueError.  *)
(* A datetime on the reference day is its number of seconds since midnight.*)

\* Characters %M takes at position q: [0-5]\d before \d; 0 when neither matches.
MinuteLen(s, q) ==
    IF InClass(At(s, q), "0", "5") /\ InClass(At(s, q + 1), "0", "9") THEN 2
    ELSE IF InClass(At(s, q), "0", "9") THEN 1
    ELSE 0

\* Characters %H takes: a two-digit alternative first, the single digit when
\* the rest of the format does not match after two; 0 when nothing matches.
HourLen(s) ==
    IF /\ \/ At(s, 1) = "2" /\ InClass(At(s, 2), "0", "3")
          \/ InClass(At(s, 1), "0", "1") /\ InClass(At(s, 2), "0", "9")
       /\ At(s, 3) = ":"
       /\ MinuteLen(s, 4) > 0
    THEN 2
    ELSE IF /\ InClass(At(s, 1), "0", "9")
            /\ At(s, 2) = ":"
            /\ MinuteLen(s, 3) > 0
    THEN 1
    ELSE 0

\* int() of the n digits of s that start at position q.
IntAt(s, q, n) ==
    IF n = 2 THEN 10 * DigitVal(s[q]) + DigitVal(s[q + 1]) ELSE DigitVal(s[q])

\* strptime as it would be on stripped input: what follows the matched text
\* is ignored.
strptime_lenient(s) ==
    LET h == HourLen(s)
        m == MinuteLen(s, h + 2)
    IN  IF h = 0
        THEN [raised |-> TRUE, value |-> 0]
        ELSE [raised |-> FALSE,
              value  |-> IntAt(s, 1, h) * 3600 + IntAt(s, h + 2, m) * 60]

strptime(s) ==
    LET h == HourLen(s)
        m == MinuteLen(s, h + 2)
    IN  IF h = 0 \/ h + 1 + m # Len(s)
        THEN [raised |-> TRUE, value |-> 0]     \* ValueError
        ELSE [raised |-> FALSE,
              value  |-> IntAt(s, 1, h) * 3600 + IntAt(s, h + 2, m) * 60]

\* timedelta.seconds: the part of the difference within its (floored) day.
timedelta_seconds(delta) == delta % 86400

\* calculate_duration with the rollover also on equal times and the whole
\* difference (total_seconds) instead of the seconds field.
calculate_duration_full_day(start, end) ==
    LET s == strptime(start)
        e == strptime(end)
    IN  IF s.raised \/ e.raised
        THEN [raised |-> TRUE, value |-> 0]
        ELSE LET e2 == IF e.value <= s.value THEN e.value + 86400 ELSE e.value
             IN  [raised |-> FALSE, value |-> (e2 - s.value) \div 60]

calculate_duration(start, end) ==
    LET s == strptime(start)
        e == strptime(end)
    IN  IF s.raised \/ e.raised
        THEN [raised |-> TRUE, value |-> 0]     \* ValueError propagates
        ELSE LET e2 == IF e.value < s.value THEN e.value + 86400 ELSE e.value
             IN  [raised |-> FALSE,
                  value  |-> timedelta_seconds(e2 - s.value) \div 60]

----------------------------------------------------------------------------
(* str comparison: by code point, a proper prefix being smaller *)

RECURSIVE str_lt(_, _)
str_lt(a, b) ==
    IF b = <<>> THEN FALSE
    ELSE IF a = <<>> THEN TRUE
    ELSE IF Ord(Head(a)) # Ord(Head(b)) THEN Ord(Head(a)) < Ord(Head(b))
    ELSE str_lt(Tail(a), Tail(b))

\* The comparison turned around: start_time <= end_time.
str_le(a, b) == ~str_lt(b, a)

str_ge(a, b) == ~str_lt(a, b)

----------------------------------------------------------------------------
(* The form's inputs *)

Page_Add == "Add a New Activity"
Page_View == "View Activities"
Page_Prioritize == "Prioritize & Summarize"

\* st.selectbox("Priority Level", ...)
Priorities == {"High", "Medium", "Low"}

\* What is typed into "Activity Name".
Names == {"", "Run"}

T_0900 == <<"0", "9", ":", "0", "0">>
T_900 == <<"9", ":", "0", "0">>
T_1000 == <<"1", "0", ":", "0", "0">>
T_1000_nl == <<"1", "0", ":", "0", "0", "\n">>
T_2400 == <<"2", "4", ":", "0", "0">>

\* What is typed into "Start Time" and "End Time": two-digit and one-digit
\* hours, an hour out of range, and a time followed by a newline.
TimeInputs == {T_0900, T_900, T_1000, T_1000_nl, T_2400}

Msg_None == "none"
Msg_Name == "Please enter an activity name."
Msg_Format == "Please enter valid start and end times in HH:MM format."
Msg_Order == "Start time must be earlier than end time."
Msg_Added == "Activity added successfully!"
Msg_ValueError == "ValueError"
Msg_NoActivities == "No activities added yet."
Msg_NothingToPrioritize == "No activities to prioritize yet."
Msg_GreatStart == "You're off to a great start!"
Msg_Productive == "You've got a productive day ahead!"
Msg_Packed == "You have a packed schedule!"
Msg_Relax == "No activities planned?"

----------------------------------------------------------------------------
(* add_activity *)

\* The chain without the elif of the order.
add_activity_outcome_no_order_check(name, start, end) ==
    IF name = "" THEN Msg_Name
    ELSE IF ~validate_time_format(start) \/ ~validate_time_format(end)
    THEN Msg_Format
    ELSE IF calculate_duration(start, end).raised THEN Msg_ValueError
    ELSE Msg_Added

\* The if / elif chain of a submitted form, and what the script run ends with:
\* one of the three messages, the success message, or the ValueError that
\* calculate_duration raises while the record is being built.
add_activity_outcome(name, start, end) ==
    IF name = "" THEN Msg_Name
    ELSE IF ~validate_time_format(start) \/ ~validate_time_format(end)
    THEN Msg_Format
    ELSE IF str_ge(start, end) THEN Msg_Order
    ELSE IF calculate_duration(start, end).raised THEN Msg_ValueError
    ELSE Msg_Added

\* The dict with the arguments of calculate_duration the wrong way round.
new_activity_swapped(name, start, end, prio) ==
    [name       |-> name,
     start_time |-> start,
     end_time   |-> end,
     priority   |-> prio,
     duration   |-> calculate_duration(end, start).value]

\* The dict appended on success.
new_activity(name, start, end, prio) ==
    [name       |-> name,
     start_time |-> start,
     end_time   |-> end,
     priority   |-> prio,
     duration   |-> calculate_duration(start, end).value]

\* list.insert(0, x)
list_insert_first(list, x) == <<x>> \o list

\* list.append
list_append(list, x) == Append(list, x)

----------------------------------------------------------------------------
(* prioritize_activities: list.sort(key=duration, reverse=True), which is   *)
(* stable: records of equal duration keep their order.                     *)

RECURSIVE insert_unstable(_, _)
\* x placed before the records of its own duration: an unstable sort.
insert_unstable(sorted, x) ==
    IF sorted = <<>> THEN <<x>>
    ELSE IF Head(sorted).duration > x.duration
         THEN <<Head(sorted)>> \o insert_unstable(Tail(sorted), x)
         ELSE <<x>> \o sorted

RECURSIVE insert_by_duration_rec(_, _)
insert_by_duration_rec(sorted, x) ==
    IF sorted = <<>> THEN <<x>>
    ELSE IF Head(sorted).duration >= x.duration
         THEN <<Head(sorted)>> \o insert_by_duration_rec(Tail(sorted), x)
         ELSE <<x>> \o sorted

\* x placed after every record whose duration is at least its own.
insert_by_duration(sorted, x) == insert_by_duration_rec(sorted, x)

RECURSIVE sort_by_duration_desc(_)
sort_by_duration_desc(list) ==
    IF list = <<>> THEN <<>>
    ELSE insert_by_duration(sort_by_duration_desc(SubSeq(list, 1, Len(list) - 1)),
                            list[Len(list)])

----------------------------------------------------------------------------
(* summary_and_reassurance *)

summary_message(n) ==
    IF n = 0 THEN Msg_Relax
    ELSE IF n <= 3 THEN Msg_GreatStart
    ELSE IF n <= 6 THEN Msg_Productive
    ELSE Msg_Packed

----------------------------------------------------------------------------
(* The session: one action per script run of main() *)

NoTime == <<>>

BlankForm ==
    /\ submitted' = FALSE
    /\ activity_name' = ""
    /\ start_time' = NoTime
    /\ end_time' = NoTime

Init ==
    /\ activities = <<>>
    /\ pc = "main"
    /\ page = Page_Add
    /\ submitted = FALSE
    /\ activity_name = ""
    /\ start_time = NoTime
    /\ end_time = NoTime
    /\ message = Msg_None
    /\ rendered = <<>>
    /\ total_activities = 0
    /\ tpc = "idle"
    /\ time_arg = <<>>
    /\ end_arg = <<>>
    /\ valid = FALSE
    /\ result = [raised |-> FALSE, value |-> 0]

\* The add page drawn without the form being submitted.
ShowAddForm ==
    /\ pc = "main"
    /\ page' = Page_Add
    /\ BlankForm
    /\ message' = Msg_None
    /\ rendered' = <<>>
    /\ total_activities' = 0
    /\ UNCHANGED <<activities, pc>>
    /\ UNCHANGED timeVars

\* The add page with the form submitted.  The select box's value is read
\* only when the record is built.
AddActivity ==
    /\ pc = "main"
    /\ \E name \in Names, start \in TimeInputs, end \in TimeInputs :
        \E outcome \in {add_activity_outcome(name, start, end)} :
            /\ page' = Page_Add
            /\ submitted' = TRUE
            /\ activity_name' = name
            /\ start_time' = start
            /\ end_time' = end
            /\ message' = outcome
            /\ IF outcome = Msg_Added
               THEN /\ Len(activities) < MaxActivities
                    /\ \E priority \in Priorities :
                         activities' =
                             list_append(activities,
                                 new_activity(name, start, end, priority))
               ELSE activities' = activities
    /\ rendered' = <<>>
    /\ total_activities' = 0
    /\ UNCHANGED pc
    /\ UNCHANGED timeVars

DisplayActivities ==
    /\ pc = "main"
    /\ page' = Page_View
    /\ BlankForm
    /\ rendered' = activities
    /\ message' = IF activities = <<>> THEN Msg_NoActivities ELSE Msg_None
    /\ total_activities' = 0
    /\ UNCHANGED <<activities, pc>>
    /\ UNCHANGED timeVars

\* The prioritize page with no activity: only the st.info.
NothingToPrioritize ==
    /\ pc = "main"
    /\ activities = <<>>
    /\ page' = Page_Prioritize
    /\ BlankForm
    /\ rendered' = <<>>
    /\ message' = Msg_NothingToPrioritize
    /\ total_activities' = 0
    /\ UNCHANGED <<activities, pc>>
    /\ UNCHANGED timeVars

PrioritizeActivities ==
    /\ pc = "main"
    /\ activities # <<>>
    /\ page' = Page_Prioritize
    /\ BlankForm
    /\ activities' = sort_by_duration_desc(activities)
    /\ rendered' = activities'
    /\ message' = Msg_None
    /\ total_activities' = 0
    /\ pc' = "summary"
    /\ UNCHANGED timeVars

SummaryAndReassurance ==
    /\ pc = "summary"
    /\ total_activities' = Len(activities)
    /\ message' = summary_message(total_activities')
    /\ pc' = "main"
    /\ UNCHANGED <<activities, page, rendered>>
    /\ UNCHANGED formVars
    /\ UNCHANGED timeVars

Next ==
    \/ ShowAddForm
    \/ AddActivity
    \/ DisplayActivities
    \/ NothingToPrioritize
    \/ PrioritizeActivities
    \/ SummaryAndReassurance

Spec == Init /\ [][Next]_vars

----------------------------------------------------------------------------
(* The time utilities called directly: validate_time_format on a string,   *)
(* then calculate_duration on it and a second validated string, as lines   *)
(* 41 and 51 of add_activity call them.                                    *)

\* The characters the strings are made of: digits on both sides of each
\* class of the pattern ([01], [0-3], [0-5]), the colon and the newline.
TimeAlphabet == {"0", "1", "2", "6", ":", "\n"}

Strings == UNION {[1..k -> TimeAlphabet] : k \in 0..MaxLen}

\* The strings that pass validate_time_format, as an enumerated set.
ValidatedStrings == {v : v \in {s \in Strings : validate_time_format(s)}}

TimeInit ==
    /\ activities = <<>>
    /\ pc = "main"
    /\ page = Page_Add
    /\ submitted = FALSE
    /\ activity_name = ""
    /\ start_time = NoTime
    /\ end_time = NoTime
    /\ message = Msg_None
    /\ rendered = <<>>
    /\ total_activities = 0
    /\ tpc = "call"
    /\ time_arg \in Strings
    /\ end_arg = <<>>
    /\ valid = FALSE
    /\ result = [raised |-> FALSE, value |-> 0]

ValidateTimeFormat ==
    /\ tpc = "call"
    /\ valid' = validate_time_format(time_arg)
    /\ tpc' = "validated"
    /\ UNCHANGED <<time_arg, end_arg, result>>
    /\ UNCHANGED sessionVars

CalculateDuration ==
    /\ tpc = "validated"
    /\ valid
    /\ \E end \in ValidatedStrings :
        /\ end_arg' = end
        /\ result' = calculate_duration(time_arg, end)
    /\ tpc' = "returned"
    /\ UNCHANGED <<time_arg, valid>>
    /\ UNCHANGED sessionVars

TimeNext ==
    \/ ValidateTimeFormat
    \/ CalculateDuration

SpecTime == TimeInit /\ [][TimeNext]_vars

----------------------------------------------------------------------------
(* The terms the properties are stated in *)

DigitChar(d) == CHOOSE c \in DigitChars : Ord(c) = 48 + d

TwoDigits(n) == <<DigitChar(n \div 10), DigitChar(n % 10)>>

\* An hour written with two digits, or with one when it is below ten.
HourTexts(h) == IF h < 10 THEN {<<DigitChar(h)>>, TwoDigits(h)} ELSE {TwoDigits(h)}

\* Every text "H:MM" or "HH:MM" of a time of day, and nothing else.
ClockTexts ==
    UNION {{ht \o <<":">> \o TwoDigits(m) : ht \in HourTexts(h)} :
              h \in 0..23, m \in 0..59}

\* The texts of ^([01][0-9]|2[0-3]):[0-5][0-9]$.
TwoDigitHourTexts == {s \in ClockTexts : Len(s) = 5}

\* Minutes after midnight that a text starting "H:MM" or "HH:MM" names.
ClockMinutes(s) ==
    IF s[2] = ":"
    THEN 60 * DigitVal(s[1]) + 10 * DigitVal(s[3]) + DigitVal(s[4])
    ELSE 60 * (10 * DigitVal(s[1]) + DigitVal(s[2]))
         + 10 * DigitVal(s[4]) + DigitVal(s[5])

\* The number of positions of seq that hold r.
Count(seq, r) == Cardinality({i \in DOMAIN seq : seq[i] = r})

IsPermutation(a, b) ==
    /\ Len(a) = Len(b)
    /\ \A i \in DOMAIN a : Count(a, a[i]) = Count(b, a[i])

\* The records of seq whose duration is d, in their order in seq.
WithDuration(seq, d) ==
    LET Test(r) == r.duration = d IN SelectSeq(seq, Test)

\* A submission that one of the three checks of the form turns down.
IsRejected(name, start, end) ==
    \/ name = ""
    \/ ~validate_time_format(start)
    \/ ~validate_time_format(end)
    \/ ~str_lt(start, end)

----------------------------------------------------------------------------
(* Properties of the session (Spec) *)

\* C1: a submission turned down by one of the three checks (empty name, a
\* time that fails validate_time_format, start >= end as strings) leaves the
\* activity list exactly as it was.
C1_RejectedLeavesListUnchanged ==
    [][(/\ page' = Page_Add
        /\ submitted'
        /\ IsRejected(activity_name', start_time', end_time'))
       => activities' = activities]_vars

C1_Witness ==
    /\ page = Page_Add
    /\ submitted
    /\ activity_name # ""
    /\ validate_time_format(start_time)
    /\ validate_time_format(end_time)
    /\ ~str_lt(start_time, end_time)
    /\ message = Msg_Order
    /\ Len(activities) > 0

\* C2: every submission ends in exactly one of four outcomes, decided by the
\* first failing check: empty name, invalid time format, start >= end as
\* strings, and otherwise acceptance.
C2_OutcomeByFirstFailingCheck ==
    (page = Page_Add /\ submitted) =>
        message =
            IF activity_name = "" THEN Msg_Name
            ELSE IF ~validate_time_format(start_time)
                    \/ ~validate_time_format(end_time) THEN Msg_Format
            ELSE IF ~str_lt(start_time, end_time) THEN Msg_Order
            ELSE Msg_Added

\* C3: prioritize_activities leaves a permutation of the list, ordered by
\* duration non-increasing, in which the records of each duration keep the
\* order they had before the call.
C3_PrioritizeIsStableSort ==
    [][(pc = "main" /\ pc' = "summary") =>
        /\ IsPermutation(activities, activities')
        /\ \A i \in 1..(Len(activities') - 1) :
               activities'[i].duration >= activities'[i + 1].duration
        /\ \A i \in DOMAIN activities :
               WithDuration(activities', activities[i].duration)
                   = WithDuration(activities, activities[i].duration)]_vars

C3_Witness ==
    /\ pc = "summary"
    /\ Len(activities) >= 2
    /\ \E i \in DOMAIN activities, j \in DOMAIN activities :
        /\ i < j
        /\ activities[i].duration = activities[j].duration
        /\ activities[i] # activities[j]

\* The minutes from start to end with the end moved to the next day when it
\* is earlier than, or (inclusive) at, the start.
ElapsedMinutes(start, end, inclusive) ==
    LET a == ClockMinutes(start)
        b == ClockMinutes(end)
    IN  IF b < a \/ (inclusive /\ b = a) THEN b - a + 1440 ELSE b - a

\* C7 as stated: every stored duration is the elapsed minutes from start_time
\* to end_time, an end earlier than or equal to the start being on the
\* following day.
C7_DurationIsInclusiveRollover ==
    \A i \in DOMAIN activities :
        activities[i].duration =
            ElapsedMinutes(activities[i].start_time, activities[i].end_time, TRUE)

\* C7 amended: every stored duration is the elapsed minutes from start_time
\* to end_time, only an end strictly earlier than the start being on the
\* following day; an end at the start's time of day gives 0.
C7_DurationIsStrictRollover ==
    \A i \in DOMAIN activities :
        activities[i].duration =
            ElapsedMinutes(activities[i].start_time, activities[i].end_time, FALSE)

C7_Witness ==
    /\ pc = "summary"
    /\ \E i \in DOMAIN activities :
        /\ ClockMinutes(activities[i].end_time)
               < ClockMinutes(activities[i].start_time)
        /\ activities[i].duration = 1380
    /\ \E i \in DOMAIN activities :
        /\ ClockMinutes(activities[i].end_time)
               = ClockMinutes(activities[i].start_time)
        /\ activities[i].duration = 0

\* C8 as stated: every stored start_time and end_time matches
\* ^([01][0-9]|2[0-3]):[0-5][0-9]$, every name is non-empty and every
\* priority is High, Medium or Low.
C8_StoredTimesTwoDigitHour ==
    \A i \in DOMAIN activities :
        /\ activities[i].start_time \in TwoDigitHourTexts
        /\ activities[i].end_time \in TwoDigitHourTexts
        /\ activities[i].name # ""
        /\ activities[i].priority \in {"High", "Medium", "Low"}

\* C8 amended: every stored start_time and end_time is exactly an hour 0-23
\* of one or two digits, a colon and a two-digit minute 00-59; every name is
\* non-empty and every priority is High, Medium or Low.
C8_StoredTimesClockText ==
    \A i \in DOMAIN activities :
        /\ activities[i].start_time \in ClockTexts
        /\ activities[i].end_time \in ClockTexts
        /\ activities[i].name # ""
        /\ activities[i].priority \in {"High", "Medium", "Low"}

C8_Witness ==
    \E i \in DOMAIN activities :
        /\ activities[i].start_time \in TwoDigitHourTexts
        /\ activities[i].end_time \in ClockTexts
        /\ Len(activities[i].end_time) = 4

\* C9 as stated: no stored activity has its end earlier in the day than its
\* start.
C9_NoOvernightStored ==
    \A i \in DOMAIN activities :
        ClockMinutes(activities[i].end_time)
            >= ClockMinutes(activities[i].start_time)

\* C9 amended: a stored activity whose two times have the same number of
\* hour digits ends later in the day than it starts; an activity stored
\* with its end earlier in the day than its start has a two-digit start hour
\* and a one-digit end hour.
C9_OvernightOnlyMixedWidth ==
    \A i \in DOMAIN activities :
        LET s == activities[i].start_time
            e == activities[i].end_time
        IN  /\ Len(s) = Len(e) => ClockMinutes(e) > ClockMinutes(s)
            /\ ClockMinutes(e) < ClockMinutes(s) => Len(s) = 5 /\ Len(e) = 4

C9_Witness ==
    /\ \E i \in DOMAIN activities :
        Len(activities[i].start_time) = Len(activities[i].end_time)
    /\ \E i \in DOMAIN activities :
        /\ ClockMinutes(activities[i].end_time)
               < ClockMinutes(activities[i].start_time)
        /\ activities[i].duration = 1380

\* C10: the list changes only by an accepted submission, which appends one
\* record after the others, or by a prioritize pass, which reorders it; the
\* view and the summary leave it alone, it never gets shorter, and the view
\* shows the list in its current order.
C10_ListChangesOnlyByAppendOrSort ==
    [][/\ Len(activities') >= Len(activities)
       /\ (page' = Page_Add /\ submitted' /\ message' = Msg_Added) =>
              /\ Len(activities') = Len(activities) + 1
              /\ SubSeq(activities', 1, Len(activities)) = activities
              /\ activities'[Len(activities')].name = activity_name'
              /\ activities'[Len(activities')].start_time = start_time'
              /\ activities'[Len(activities')].end_time = end_time'
       /\ activities' # activities =>
              \/ page' = Page_Add /\ submitted' /\ message' = Msg_Added
              \/ /\ pc = "main"
                 /\ pc' = "summary"
                 /\ IsPermutation(activities, activities')
       /\ page' = Page_View =>
              activities' = activities /\ rendered' = activities
       /\ pc = "summary" =>
              activities' = activities /\ rendered' = rendered]_vars

C10_Witness ==
    /\ page = Page_View
    /\ rendered = activities
    /\ Len(rendered) = 2
    /\ rendered[1].duration > rendered[2].duration
    /\ ClockMinutes(rendered[1].start_time) > ClockMinutes(rendered[2].start_time)

----------------------------------------------------------------------------
(* Properties of the time utilities (SpecTime) *)

\* C4: for two strings that pass validate_time_format, calculate_duration
\* returns an integer from 0 to 1439: end - start in minutes when the end is
\* later in the day, end - start + 1440 when it is earlier.
C4_DurationOfValidatedTimes ==
    tpc = "returned" =>
        LET a == ClockMinutes(time_arg)
            b == ClockMinutes(end_arg)
        IN  /\ ~result.raised
            /\ result.value \in 0..1439
            /\ b > a => result.value = b - a
            /\ b < a => result.value = b - a + 1440

\* C5 as stated: calculate_duration(t, t) is 1440 for every validated t.
C5_EqualTimesGiveFullDay ==
    (tpc = "returned" /\ end_arg = time_arg) =>
        ~result.raised /\ result.value = 1440

\* C5 amended: calculate_duration(t, t) is 0 for every validated t whose text
\* is exactly a time; for a validated t that ends in a newline it raises
\* ValueError.
C5_EqualTimesGiveZero ==
    (tpc = "returned" /\ end_arg = time_arg) =>
        IF time_arg \in ClockTexts
        THEN ~result.raised /\ result.value = 0
        ELSE result.raised

C5_Witness ==
    /\ tpc = "returned"
    /\ end_arg = time_arg
    /\ time_arg \in ClockTexts
    /\ ~result.raised
    /\ result.value = 0

\* C6: validate_time_format is true for exactly the texts made of an hour
\* 0-23 of one or two digits, a colon and a two-digit minute 00-59, and false
\* for every other string.
C6_ValidatesExactlyClockTexts ==
    tpc # "call" => (valid <=> time_arg \in ClockTexts)

====
